---- MODULE Spec2Model ----
(***************************************************************************)
(* A model of the procedural race-track generator (src/src/track_gen.rs)   *)
(* and of the per-piece mesh builder (src/src/track_mesh.rs).              *)
(*                                                                         *)
(* Numbers.  The program computes in f32/f64.  The model computes in       *)
(* fixed point: lengths and noise values in 1/Unit, angles in 1/TrigScale  *)
(* radians, sines, cosines and quaternion components in 1/TrigScale.       *)
(* Every product is rounded to the nearest representable value (RDiv), the *)
(* way a float operation rounds its result.                                *)
(***************************************************************************)
EXTENDS Integers, Sequences, FiniteSets, TLC

VARIABLES
    rot,            \* SpecRot: one use of rotate_point_around and its inverse
    seed,           \* SpecGen: the seed handed to Track::generate
    initial_length, \* SpecGen: the initial_length handed to Track::generate
    track,          \* SpecGen: per run, the Track under construction
    pc,             \* SpecGen: per run, where its constructor stands
    noise,          \* SpecGen: the samples of Perlin::new(seed) taken so far
    block,          \* SpecMesh: the block handed to the mesh builder
    mesh,           \* SpecMesh: the mesh it returned
    chain,          \* SpecChain: one use of calculate_end_transform
    game,           \* SpecGame: the server's resources, clients and players
    world           \* SpecWorld, SpecRace: the entities of the world

vars == <<rot, seed, initial_length, track, pc, noise, block, mesh, chain, game,
          world>>

(***************************************************************************)
(* Fixed-point arithmetic                                                  *)
(***************************************************************************)
Unit == 1000
TrigScale == 10000
PI == 31416
EPSILON == 1

Abs(a) == IF a < 0 THEN -a ELSE a

\* a / b rounded to the nearest integer, halves away from zero (b > 0).
RDiv(a, b) == IF a >= 0 THEN (2 * a + b) \div (2 * b)
                        ELSE -((2 * (-a) + b) \div (2 * b))

HalfPI == PI \div 2
TwoPI == 2 * PI

\* The odd Taylor series x - x^3/3! + x^5/5! - ... for |x| <= HalfPI.
RECURSIVE SinSeries(_, _, _, _)
SinSeries(x, term, k, acc) ==
    IF term = 0 \/ k > 13 THEN acc
    ELSE LET next == -RDiv(RDiv(RDiv(term * x, TrigScale) * x, TrigScale),
                           k * (k + 1))
         IN  SinSeries(x, next, k + 2, acc + term)

\* The even Taylor series 1 - x^2/2! + x^4/4! - ... for |x| <= HalfPI.
RECURSIVE CosSeries(_, _, _, _)
CosSeries(x, term, k, acc) ==
    IF term = 0 \/ k > 13 THEN acc
    ELSE LET next == -RDiv(RDiv(RDiv(term * x, TrigScale) * x, TrigScale),
                           k * (k + 1))
         IN  CosSeries(x, next, k + 2, acc + term)

\* An angle brought into (-PI, PI].
RECURSIVE WrapAngle(_)
WrapAngle(a) == IF a > PI THEN WrapAngle(a - TwoPI)
                ELSE IF a <= -PI THEN WrapAngle(a + TwoPI)
                ELSE a

\* f32::sin and f32::cos.
Sin(a) == LET w == WrapAngle(a)
              m == Abs(w)
              r == IF m > HalfPI THEN PI - m ELSE m
              s == SinSeries(r, r, 2, 0)
          IN  IF w < 0 THEN -s ELSE s

Cos(a) == LET m == Abs(WrapAngle(a))
          IN  IF m > HalfPI THEN -CosSeries(PI - m, TrigScale, 1, 0)
                            ELSE CosSeries(m, TrigScale, 1, 0)

(***************************************************************************)
(* rotate_point_around                                                     *)
(***************************************************************************)
Vec2(x, y) == [x |-> x, y |-> y]

\* A slip in the rotation matrix: the second row with its signs exchanged.
rotate_point_around_mirrored(point, around, angle) ==
    LET x_translated == point.x - around.x
        y_translated == point.y - around.y
        cos_angle == Cos(angle)
        sin_angle == Sin(angle)
        x_rotated == RDiv(x_translated * cos_angle - y_translated * sin_angle, TrigScale)
        y_rotated == RDiv(y_translated * cos_angle - x_translated * sin_angle, TrigScale)
    IN  Vec2(x_rotated + around.x, y_rotated + around.y)

rotate_point_around(point, around, angle) ==
    LET x_translated == point.x - around.x
        y_translated == point.y - around.y
        cos_angle == Cos(angle)
        sin_angle == Sin(angle)
        x_rotated == RDiv(x_translated * cos_angle - y_translated * sin_angle, TrigScale)
        y_rotated == RDiv(x_translated * sin_angle + y_translated * cos_angle, TrigScale)
    IN  Vec2(x_rotated + around.x, y_rotated + around.y)

(***************************************************************************)
(* Idle values of the variables a specification does not use               *)
(***************************************************************************)
NoVec2 == Vec2(0, 0)
RotIdle == [point |-> NoVec2, around |-> NoVec2, angle |-> 0,
            res |-> NoVec2, back |-> NoVec2, stage |-> "idle"]
rotVars == <<rot>>
genVars == <<seed, initial_length, track, pc, noise>>
meshVars == <<block, mesh>>
chainVars == <<chain>>
gameVars == <<game>>

GenIdle == /\ seed = 0
           /\ initial_length = 0
           /\ track = <<>>
           /\ pc = <<>>
           /\ noise = <<>>

NoCall == [fn |-> "none"]
NoMesh == [status |-> "none", positions |-> <<>>, normals |-> <<>>, uvs |-> <<>>,
           indices |-> <<>>, smooth_normals |-> FALSE]
MeshIdle == /\ block = NoCall
            /\ mesh = NoMesh

NoChain == [stage |-> "idle"]
ChainIdle == chain = NoChain

NoGame == [stage |-> "idle"]
GameIdle == game = NoGame

worldVars == <<world>>
NoWorld == [stage |-> "idle"]
WorldIdle == world = NoWorld

(***************************************************************************)
(* Vec3 and Quat (glam, as bevy re-exports them)                           *)
(***************************************************************************)
Vec3(x, y, z) == [x |-> x, y |-> y, z |-> z]
Quat(x, y, z, w) == [x |-> x, y |-> y, z |-> z, w |-> w]

Vec3_ZERO == Vec3(0, 0, 0)
Quat_IDENTITY == Quat(0, 0, 0, TrigScale)

Vec3Add(a, b) == Vec3(a.x + b.x, a.y + b.y, a.z + b.z)

\* Quat::from_rotation_y(angle) and Quat::from_rotation_x(angle).
from_rotation_y(angle) == Quat(0, Sin(RDiv(angle, 2)), 0, Cos(RDiv(angle, 2)))
from_rotation_x(angle) == Quat(Sin(RDiv(angle, 2)), 0, 0, Cos(RDiv(angle, 2)))

\* Quat * Quat.
QuatMul(a, b) ==
    Quat(RDiv(a.w * b.x + a.x * b.w + a.y * b.z - a.z * b.y, TrigScale),
         RDiv(a.w * b.y - a.x * b.z + a.y * b.w + a.z * b.x, TrigScale),
         RDiv(a.w * b.z + a.x * b.y - a.y * b.x + a.z * b.w, TrigScale),
         RDiv(a.w * b.w - a.x * b.x - a.y * b.y - a.z * b.z, TrigScale))

\* Quat * Vec3: v * (w^2 - b.b) + b * (2 * (v.b)) + (b x v) * (2 * w), b = (x, y, z).
QuatRotate(q, v) ==
    LET k1 == RDiv(q.w * q.w - (q.x * q.x + q.y * q.y + q.z * q.z), TrigScale)
        k2 == 2 * RDiv(v.x * q.x + v.y * q.y + v.z * q.z, TrigScale)
        cx == RDiv(q.y * v.z - q.z * v.y, TrigScale)
        cy == RDiv(q.z * v.x - q.x * v.z, TrigScale)
        cz == RDiv(q.x * v.y - q.y * v.x, TrigScale)
    IN  Vec3(RDiv(v.x * k1 + q.x * k2 + cx * (2 * q.w), TrigScale),
             RDiv(v.y * k1 + q.y * k2 + cy * (2 * q.w), TrigScale),
             RDiv(v.z * k1 + q.z * k2 + cz * (2 * q.w), TrigScale))

\* The squared length of a quaternion, in 1/TrigScale.
QuatLengthSquared(q) == RDiv(q.x * q.x + q.y * q.y + q.z * q.z + q.w * q.w, TrigScale)

\* The sine of the pitch Quat::to_euler(EulerRot::YXZ) returns, in 1/TrigScale.
PitchSin(q) == 2 * RDiv(q.w * q.x - q.y * q.z, TrigScale)

(***************************************************************************)
(* BlockType, BlockTransform, TrackSegment                                 *)
(***************************************************************************)
Straight(length) == [type |-> "Straight", length |-> length]
Turn(angle, radius) == [type |-> "Turn", angle |-> angle, radius |-> radius]
Slope(length, height_change) ==
    [type |-> "Slope", length |-> length, height_change |-> height_change]

BlockTransform(position, rotation) == [position |-> position, rotation |-> rotation]

Asphalt == "Asphalt"
Ice == "Ice"
ModifierNone == [type |-> "None"]
GravityChange(strength, duration) ==
    [type |-> "GravityChange", strength |-> strength, duration |-> duration]

TrackSegment(block_type, transform, road_type, modifier) ==
    [block_type |-> block_type, transform |-> transform,
     road_type |-> road_type, modifier |-> modifier]

(***************************************************************************)
(* Track::calculate_end_transform and Track::append_block                  *)
(***************************************************************************)
\* The Straight arm.
EndOfStraightUnit(current_end, block_type) ==
    \* "* length" left out: the cursor advances by Vec3::Z alone
    BlockTransform(
        Vec3Add(current_end.position, QuatRotate(current_end.rotation, Vec3(0, 0, Unit))),
        current_end.rotation)

EndOfStraightWorldZ(current_end, block_type) ==
    \* the offset taken along the world's Z axis, whatever the cursor's rotation
    BlockTransform(Vec3Add(current_end.position, Vec3(0, 0, block_type.length)),
                   current_end.rotation)

EndOfStraight(current_end, block_type) ==
    BlockTransform(
        Vec3Add(current_end.position,
                QuatRotate(current_end.rotation, Vec3(0, 0, block_type.length))),
        current_end.rotation)

\* The Turn arm.
EndOfTurnLocal(current_end, block_type) ==
    \* the turn composed on the other side: current_end.rotation * Rot_y(angle)
    LET rotation == QuatMul(current_end.rotation, from_rotation_y(block_type.angle))
        position_offset ==
            rotate_point_around(Vec2(0, 0), Vec2(block_type.radius, 0), -block_type.angle)
        position ==
            Vec3Add(current_end.position,
                    QuatRotate(current_end.rotation,
                               Vec3(position_offset.x, 0, position_offset.y)))
    IN  BlockTransform(position, rotation)

EndOfTurn(current_end, block_type) ==
    LET rotation == QuatMul(from_rotation_y(block_type.angle), current_end.rotation)
        position_offset ==
            rotate_point_around(Vec2(0, 0), Vec2(block_type.radius, 0), -block_type.angle)
        position ==
            Vec3Add(current_end.position,
                    QuatRotate(current_end.rotation,
                               Vec3(position_offset.x, 0, position_offset.y)))
    IN  BlockTransform(position, rotation)

\* The Slope arm.
EndOfSlopePitched(current_end, block_type) ==
    \* the cursor also tilted down the slope, a quarter turn about the lateral axis
    BlockTransform(
        Vec3Add(current_end.position,
                QuatRotate(current_end.rotation,
                           Vec3(0, block_type.height_change, block_type.length))),
        QuatMul(current_end.rotation, from_rotation_x(HalfPI)))

EndOfSlopeLevel(current_end, block_type) ==
    \* height_change left out of the offset
    BlockTransform(
        Vec3Add(current_end.position,
                QuatRotate(current_end.rotation, Vec3(0, 0, block_type.length))),
        current_end.rotation)

EndOfSlopeRising(current_end, block_type) ==
    \* height_change subtracted: a descending slope raises the cursor
    BlockTransform(
        Vec3Add(current_end.position,
                QuatRotate(current_end.rotation,
                           Vec3(0, -block_type.height_change, block_type.length))),
        current_end.rotation)

EndOfSlope(current_end, block_type) ==
    LET rotation == current_end.rotation
    IN  BlockTransform(
            Vec3Add(current_end.position,
                    QuatRotate(current_end.rotation,
                               Vec3(0, block_type.height_change, block_type.length))),
            rotation)

\* The arms of the two variants track_mesh.rs builds meshes for and the enum
\* of track_gen.rs does not list: a BankedTurn chains as the Turn of its angle
\* and radius, a Bumpy as the Straight of its length.
EndOfBankedTurn(current_end, block_type) ==
    EndOfTurn(current_end, [type |-> "Turn", angle |-> block_type.angle,
                            radius |-> block_type.radius])
EndOfBumpy(current_end, block_type) ==
    EndOfStraight(current_end, [type |-> "Straight", length |-> block_type.length])

calculate_end_transform(current_end, block_type) ==
    CASE block_type.type = "Straight" -> EndOfStraight(current_end, block_type)
      [] block_type.type = "Turn" -> EndOfTurn(current_end, block_type)
      [] block_type.type = "Slope" -> EndOfSlope(current_end, block_type)
      [] block_type.type = "BankedTurn" -> EndOfBankedTurn(current_end, block_type)
      [] block_type.type = "Bumpy" -> EndOfBumpy(current_end, block_type)

\* tests::calculate_end, the reference the test test_consecutive_segments_connect
\* compares the generated segments with.  Vec3::Z is held in 1/TrigScale.
calculate_end(block_type, start) ==
    CASE block_type.type = "Straight" ->
            LET direction == QuatRotate(start.rotation, Vec3(0, 0, TrigScale))
            IN  BlockTransform(
                    Vec3Add(start.position,
                            Vec3(RDiv(direction.x * block_type.length, TrigScale),
                                 RDiv(direction.y * block_type.length, TrigScale),
                                 RDiv(direction.z * block_type.length, TrigScale))),
                    start.rotation)
      [] block_type.type = "Turn" ->
            LET rotation == QuatMul(start.rotation, from_rotation_y(block_type.angle))
            IN  BlockTransform(
                    Vec3Add(start.position,
                            QuatRotate(rotation,
                                       Vec3(block_type.radius, 0, block_type.radius))),
                    rotation)
      [] block_type.type = "Slope" ->
            BlockTransform(
                Vec3Add(start.position,
                        QuatRotate(start.rotation,
                                   Vec3(0, block_type.height_change, block_type.length))),
                start.rotation)

\* The segment stored with the pose the block ends at, not the one it starts at.
append_block_stores_end(t, block_type, road_type, modifier) ==
    LET end_transform == calculate_end_transform(t.current_end, block_type)
    IN  [t EXCEPT !.segments = Append(@, TrackSegment(block_type, end_transform,
                                                      road_type, modifier)),
                  !.current_end = end_transform]

append_block_prepends(t, block_type, road_type, modifier) ==
    \* the new segment inserted at the front of the list
    [segments |-> <<TrackSegment(block_type, t.current_end, road_type, modifier)>>
                     \o t.segments,
     current_end |-> calculate_end_transform(t.current_end, block_type)]

append_block(t, block_type, road_type, modifier) ==
    LET end_transform == calculate_end_transform(t.current_end, block_type)
    IN  [t EXCEPT !.segments = Append(@, TrackSegment(block_type, t.current_end,
                                                      road_type, modifier)),
                  !.current_end = end_transform]

(***************************************************************************)
(* The noise field Perlin::new(seed).  The field is a fixed function of    *)
(* its coordinates with values in [-1, 1]; the model learns it sample by   *)
(* sample: the first read of a coordinate picks any value of the grid, and *)
(* every later read of that coordinate, by any run, returns the same one.  *)
(* noise.d2 holds the samples read with two coordinates, noise.d3 those    *)
(* read with three.                                                        *)
(***************************************************************************)
NoiseVals2 == {-450, 50, 905}
NoiseVals3 == {50, 950}
NoSamples == [k \in {} |-> 0]

Known(memo, key) == key \in DOMAIN memo
\* self.noise.get(key): the recorded sample, or the value picked for a fresh one.
NoiseGet(memo, key, pick) == IF Known(memo, key) THEN memo[key] ELSE pick
Remember(memo, key, pick) == IF Known(memo, key) THEN memo ELSE memo @@ (key :> pick)

\* v as f64 * 0.3 and v as f64 * 0.5, in 1/Unit.
Times03(v) == RDiv(3 * v, 10)
Times05(v) == RDiv(v, 2)

KeySelect(t) == <<Len(t.segments) * ((3 * Unit) \div 10), 0>>
KeyXY(t) == <<Times03(t.current_end.position.x), Times03(t.current_end.position.y)>>
KeyYX(t) == <<Times03(t.current_end.position.y), Times03(t.current_end.position.x)>>
KeyRoad(t) == <<Times05(t.current_end.position.x),
                Times05(t.current_end.position.y),
                Times05(t.current_end.position.z)>>
ModifierOffset == RDiv(PI * Unit, TrigScale \div 40)
KeyModifier(t) == <<ModifierOffset + Times05(t.current_end.position.x),
                    ModifierOffset + Times05(t.current_end.position.y),
                    ModifierOffset + Times05(t.current_end.position.z)>>

(***************************************************************************)
(* Track::turn_radius and Track::select_next_block                         *)
(***************************************************************************)
\* The radius drawn from a random source (the branch the source has commented out).
turn_radius_random(t, memo, pick) == Abs(pick) * 20 + 10 * Unit

turn_radius_signed(t, memo, pick) ==
    \* ".abs()" left out: the sample used with its sign
    NoiseGet(memo, KeyYX(t), pick) * 20 + 10 * Unit

turn_radius(t, memo, pick) ==
    LET r == Abs(NoiseGet(memo, KeyYX(t), pick))
    IN  r * 20 + 10 * Unit

\* picks = <<p_sel, p_a, p_b>>: the values of the samples that turn out fresh.
\* Returns the block and the samples known afterwards.
select_next_block(t, memo, picks) ==
    LET noise_value == NoiseGet(memo, KeySelect(t), picks[1])
        m1 == Remember(memo, KeySelect(t), picks[1])
        v == Abs(noise_value)
    IN  IF v < (3 * Unit) \div 10
        THEN [block |-> Straight(10 * Unit), noise |-> m1]
        ELSE IF v < (6 * Unit) \div 10
        THEN LET r == Abs(NoiseGet(m1, KeyXY(t), picks[2]))
                 m2 == Remember(m1, KeyXY(t), picks[2])
             IN  [block |-> Turn(RDiv(PI * r, Unit) + (3 * TrigScale) \div 10,
                                 turn_radius(t, m2, picks[3])),
                  noise |-> Remember(m2, KeyYX(t), picks[3])]
        ELSE [block |-> Slope(15 * Unit,
                              -(NoiseGet(m1, KeyYX(t), picks[3]) * 10 + 10 * Unit)),
              noise |-> Remember(m1, KeyYX(t), picks[3])]

\* Whether select_next_block reads each of its three samples as a fresh one: the
\* selector, the sample at (x, y) given the selector's pick, and the sample at
\* (y, x) given both.
SelectedKind(t, memo, p_sel) ==
    LET v == Abs(NoiseGet(memo, KeySelect(t), p_sel))
    IN  IF v < (3 * Unit) \div 10 THEN "Straight"
        ELSE IF v < (6 * Unit) \div 10 THEN "Turn" ELSE "Slope"
FreshSelect(t, memo) == ~Known(memo, KeySelect(t))
FreshXY(t, memo, p_sel) ==
    /\ SelectedKind(t, memo, p_sel) = "Turn"
    /\ ~Known(Remember(memo, KeySelect(t), p_sel), KeyXY(t))
FreshYX(t, memo, p_sel, p_a) ==
    LET kind == SelectedKind(t, memo, p_sel)
        m1 == Remember(memo, KeySelect(t), p_sel)
        m2 == IF kind = "Turn" THEN Remember(m1, KeyXY(t), p_a) ELSE m1
    IN  kind # "Straight" /\ ~Known(m2, KeyYX(t))

\* The values a sample may take: any value of the grid when the sample is fresh; a
\* sample that is known, or not read at all, leaves nothing to pick.
Least(S) == CHOOSE v \in S : \A w \in S : v <= w
Picks(fresh, S) == IF fresh THEN S ELSE {Least(S)}

(***************************************************************************)
(* Track::generate and Track::debug_straight                               *)
(***************************************************************************)
LoopCount == 2
Runs == {1, 2}
Seeds == {1234}
InitialLengths == {10 * Unit, 30 * Unit}

NewTrack == [segments |-> <<>>,
             current_end |-> BlockTransform(Vec3_ZERO, Quat_IDENTITY)]

\* Where generate is after i iterations of its loop: in the loop, or returned.
AfterIterations(i) == [at |-> IF i < LoopCount THEN "loop" ELSE "done", i |-> i]

\* generate with an initial slope of the length debug_straight uses, whatever
\* initial_length is.
GenerateBeginFixedLength(r) ==
    /\ pc[r].at = "new"
    /\ track' = [track EXCEPT ![r] =
                    append_block(NewTrack, Slope(10 * Unit, -3 * Unit),
                                 Asphalt, ModifierNone)]
    /\ pc' = [pc EXCEPT ![r] = AfterIterations(0)]
    /\ UNCHANGED <<seed, initial_length, noise, rotVars, meshVars, chainVars, gameVars, worldVars>>

\* generate, up to its loop: the track with the initial slope appended.
GenerateBegin(r) ==
    /\ pc[r].at = "new"
    /\ track' = [track EXCEPT ![r] =
                    append_block(NewTrack, Slope(initial_length, -3 * Unit),
                                 Asphalt, ModifierNone)]
    /\ pc' = [pc EXCEPT ![r] = AfterIterations(0)]
    /\ UNCHANGED <<seed, initial_length, noise, rotVars, meshVars, chainVars, gameVars, worldVars>>

\* One iteration of generate's loop; after the last one generate returns the
\* track.
GenerateStep(r) ==
    /\ pc[r].at = "loop"
    /\ pc[r].i < LoopCount
    /\ \E p_sel \in Picks(FreshSelect(track[r], noise.d2), NoiseVals2) :
       \E p_a \in Picks(FreshXY(track[r], noise.d2, p_sel), NoiseVals2) :
       \E p_b \in Picks(FreshYX(track[r], noise.d2, p_sel, p_a), NoiseVals2) :
       \E p_road \in Picks(~Known(noise.d3, KeyRoad(track[r])), NoiseVals3) :
       \E p_mod \in Picks(~Known(Remember(noise.d3, KeyRoad(track[r]), p_road),
                                 KeyModifier(track[r])), NoiseVals3) :
          LET t == track[r]
              next == select_next_block(t, noise.d2, <<p_sel, p_a, p_b>>)
              road_value == NoiseGet(noise.d3, KeyRoad(t), p_road)
              d3a == Remember(noise.d3, KeyRoad(t), p_road)
              road_type == IF Abs(road_value) < Unit \div 10 THEN Ice ELSE Asphalt
              modifier_value == NoiseGet(d3a, KeyModifier(t), p_mod)
              d3b == Remember(d3a, KeyModifier(t), p_mod)
              modifier == IF Abs(modifier_value) > (9 * Unit) \div 10
                          THEN GravityChange(4 * Unit, 10)
                          ELSE ModifierNone
          IN  /\ track' = [track EXCEPT ![r] =
                              append_block(t, next.block, road_type, modifier)]
              /\ noise' = [d2 |-> next.noise, d3 |-> d3b]
    /\ pc' = [pc EXCEPT ![r] = AfterIterations(pc[r].i + 1)]
    /\ UNCHANGED <<seed, initial_length, rotVars, meshVars, chainVars, gameVars, worldVars>>

\* debug_straight: the fixed layout.
DebugStraight(r) ==
    /\ pc[r].at = "new"
    /\ LET t1 == append_block(NewTrack, Straight(10 * Unit), Asphalt, ModifierNone)
           t2 == append_block(t1, Turn(PI, 10 * Unit), Asphalt, ModifierNone)
           t3 == append_block(t2, Turn(HalfPI, 10 * Unit), Asphalt, ModifierNone)
           t4 == append_block(t3, Slope(10 * Unit, -10 * Unit), Asphalt, ModifierNone)
           t5 == append_block(t4, Turn(HalfPI, 10 * Unit), Asphalt, ModifierNone)
       IN  track' = [track EXCEPT ![r] = t5]
    /\ pc' = [pc EXCEPT ![r] = [at |-> "debug", i |-> 0]]
    /\ UNCHANGED <<seed, initial_length, noise, rotVars, meshVars, chainVars, gameVars, worldVars>>

(***************************************************************************)
(* The mesh builder (track_mesh.rs).  A mesh is the attribute arrays as    *)
(* they are inserted: positions, normals, uvs, and the triangle indices    *)
(* (0-based).  smooth_normals records that Mesh::compute_smooth_normals    *)
(* then replaced the normals by one computed normal per position.          *)
(***************************************************************************)
BankedTurn(angle, radius, bank_height) ==
    [type |-> "BankedTurn", angle |-> angle, radius |-> radius,
     bank_height |-> bank_height]
Bumpy(length, pertubation) ==
    [type |-> "Bumpy", length |-> length, pertubation |-> pertubation]

TRACK_WIDTH == 10 * Unit
SEGMENTS_PER_RADIAN == 10
WallHeight == 3 * Unit

Mesh(positions, indices, uvs, normals) ==
    [status |-> "ok", positions |-> positions, normals |-> normals, uvs |-> uvs,
     indices |-> indices, smooth_normals |-> FALSE]

create_mesh_from_attributes(positions, indices, uvs, normals) ==
    Mesh(positions, indices, uvs, normals)

\* A failed assert!: the call panics and returns nothing.
Panicked == [NoMesh EXCEPT !.status = "panic"]

RectangleUVs == << <<0, 0>>, <<Unit, 0>>, <<Unit, Unit>>, <<0, Unit>>,
                   <<0, 0>>, <<Unit, 0>>, <<Unit, Unit>>, <<0, Unit>> >>
RectangleIndices == <<0, 2, 1,  0, 3, 2,  0, 4, 7,  0, 7, 3,  1, 6, 5,  1, 2, 6>>

generate_straight_mesh(length) ==
    LET half_width == TRACK_WIDTH \div 2
        vertices == << <<-half_width, 0, 0>>, <<half_width, 0, 0>>,
                       <<half_width, 0, length>>, <<-half_width, 0, length>>,
                       <<-half_width, WallHeight, 0>>, <<half_width, WallHeight, 0>>,
                       <<half_width, WallHeight, length>>,
                       <<-half_width, WallHeight, length>> >>
        normals == << <<0, Unit, 0>>, <<0, Unit, 0>>, <<0, Unit, 0>>, <<0, Unit, 0>>,
                      <<Unit, 0, 0>>, <<Unit, 0, 0>>, <<-Unit, 0, 0>>, <<-Unit, 0, 0>> >>
    IN  create_mesh_from_attributes(vertices, RectangleIndices, RectangleUVs, normals)

\* f32::sqrt, to the nearest 1/Unit below: the largest r with r * r <= a * Unit.
RECURSIVE SqrtBits(_, _, _)
SqrtBits(a, r, bit) ==
    IF bit = 0 THEN r
    ELSE SqrtBits(a, IF (r + bit) * (r + bit) <= a THEN r + bit ELSE r, bit \div 2)
Sqrt(a) == SqrtBits(a, 0, 32768)

generate_slope_mesh(length, height_change) ==
    LET half_width == TRACK_WIDTH \div 2
        vertices == << <<-half_width, 0, 0>>, <<half_width, 0, 0>>,
                       <<half_width, height_change, length>>,
                       <<-half_width, height_change, length>>,
                       <<-half_width, WallHeight, 0>>, <<half_width, WallHeight, 0>>,
                       <<half_width, height_change + WallHeight, length>>,
                       <<-half_width, height_change + WallHeight, length>> >>
        dx == length
        dy == height_change
        \* (dx * dx + dy * dy).sqrt(), the squares taken in 1/100 to stay in range
        normal_length == 10 * Sqrt((dx \div 10) * (dx \div 10) + (dy \div 10) * (dy \div 10))
        \* a division by a normal_length of 0.0 gives NaN
        normal == IF normal_length = 0 THEN <<"NaN", "NaN", 0>>
                  ELSE <<RDiv(-dy * Unit, normal_length), RDiv(dx * Unit, normal_length), 0>>
        normals == << normal, normal, normal, normal,
                      <<Unit, 0, 0>>, <<Unit, 0, 0>>, <<-Unit, 0, 0>>, <<-Unit, 0, 0>> >>
    IN  create_mesh_from_attributes(vertices, RectangleIndices, RectangleUVs, normals)

\* (angle.abs() * SEGMENTS_PER_RADIAN as f32).ceil() as u32, at least 1.
ArcSegments(angle) ==
    LET segments == (Abs(angle) * SEGMENTS_PER_RADIAN + TrigScale - 1) \div TrigScale
    IN  IF segments < 1 THEN 1 ELSE segments

\* The indices the arc loop pushes: for every i < segments, the floor, inner wall
\* and outer wall quads between ring i and ring i + 1.
QuadOffsets == <<0, 4, 2,  2, 4, 6,  0, 1, 4,  1, 5, 4,  2, 6, 3,  3, 6, 7>>

ArcIndicesEveryRing(segments) ==
    \* "if i < segments" left out: the last ring pushes its quads too
    [k \in 1..(segments + 1) * 18 |->
        ((k - 1) \div 18) * 4 + QuadOffsets[((k - 1) % 18) + 1]]

ArcIndices(segments) ==
    [k \in 1..segments * 18 |->
        ((k - 1) \div 18) * 4 + QuadOffsets[((k - 1) % 18) + 1]]

\* exp(y) for 0 <= y, y and the result in 1/Unit.
RECURSIVE ExpSeries(_, _, _, _)
ExpSeries(y, term, n, acc) ==
    IF term = 0 \/ n > 40 THEN acc
    ELSE ExpSeries(y, RDiv(term * y, n * Unit), n + 1, acc + term)

zero_peak(x) ==
    LET exponent_term == RDiv(x * x, Unit) * 5
        exp_value == ExpSeries(exponent_term, Unit, 1, 0)
        denominator == Unit + exp_value
    IN  RDiv(2 * Unit * Unit, denominator)

sigmoid_peak_open(i, max) ==
    \* "if i == max" left out: the last ring gets the curve's value at 1
    IF i = 0 THEN 0
    ELSE zero_peak(RDiv((2 * i - max) * Unit, max))

sigmoid_peak(i, max) ==
    IF i = 0 THEN 0
    ELSE IF i = max THEN 0
    ELSE zero_peak(RDiv((2 * i - max) * Unit, max))

\* The four vertices of ring i: inner floor, inner ceiling, outer floor, outer
\* ceiling; bank_offset lifts the inner two.
ArcRingShort(i, segments, angle, radius, bank_offset) ==
    \* the angle divided over segments + 1 steps: the last ring stops short of it
    LET segment_angle == RDiv(i * angle, segments + 1)
        inner == rotate_point_around(Vec2(-(TRACK_WIDTH \div 2), 0), Vec2(radius, 0),
                                     -segment_angle)
        outer == rotate_point_around(Vec2(TRACK_WIDTH \div 2, 0), Vec2(radius, 0),
                                     -segment_angle)
    IN  << <<inner.x, 0 + bank_offset, inner.y>>,
           <<inner.x, WallHeight + bank_offset, inner.y>>,
           <<outer.x, 0, outer.y>>,
           <<outer.x, WallHeight, outer.y>> >>

ArcRing(i, segments, angle, radius, bank_offset) ==
    LET segment_angle == RDiv(i * angle, segments)
        inner == rotate_point_around(Vec2(-(TRACK_WIDTH \div 2), 0), Vec2(radius, 0),
                                     -segment_angle)
        outer == rotate_point_around(Vec2(TRACK_WIDTH \div 2, 0), Vec2(radius, 0),
                                     -segment_angle)
    IN  << <<inner.x, 0 + bank_offset, inner.y>>,
           <<inner.x, WallHeight + bank_offset, inner.y>>,
           <<outer.x, 0, outer.y>>,
           <<outer.x, WallHeight, outer.y>> >>

ArcUVs(segments) ==
    [k \in 1..(segments + 1) * 4 |->
        <<RDiv(((k - 1) \div 4) * Unit, segments), IF (k - 1) % 4 < 2 THEN 0 ELSE Unit>>]
ArcNormals(segments) ==
    [k \in 1..(segments + 1) * 4 |->
        << <<0, Unit, 0>>, <<Unit, 0, 0>>, <<0, Unit, 0>>, <<-Unit, 0, 0>> >>[((k - 1) % 4) + 1]]

generate_turn_mesh(angle, radius) ==
    LET segments == ArcSegments(angle)
        vertices == [k \in 1..(segments + 1) * 4 |->
                        ArcRing((k - 1) \div 4, segments, angle, radius, 0)[((k - 1) % 4) + 1]]
    IN  create_mesh_from_attributes(vertices, ArcIndices(segments), ArcUVs(segments),
                                    ArcNormals(segments))

generate_banked_turn_mesh(angle, radius, bank_height) ==
    LET segments == ArcSegments(angle)
        vertices == [k \in 1..(segments + 1) * 4 |->
                        LET i == (k - 1) \div 4
                            bank_offset == RDiv(sigmoid_peak(i, segments) * bank_height, Unit)
                        IN  ArcRing(i, segments, angle, radius, bank_offset)[((k - 1) % 4) + 1]]
    IN  create_mesh_from_attributes(vertices, ArcIndices(segments), ArcUVs(segments),
                                    ArcNormals(segments))

\* The Perlin field handed to the builder: a fixed function of the sample point
\* with values in [-1, 1].  Four fields stand for it: level at 0, at +1, at -1,
\* and one that varies from point to point.
NoiseFields == {"level", "crest", "trough", "ripple"}
PerlinGet(field, key) ==
    CASE field = "level" -> 0
      [] field = "crest" -> Unit
      [] field = "trough" -> -Unit
      [] field = "ripple" -> ((7 * key[1] + 13 * key[2]) % (2 * Unit + 1)) - Unit

\* The two assert! lines of generate_bumpy_mesh.
ResolutionAcceptedAbove2(resolution_x, resolution_z) ==
    resolution_x > 2 /\ resolution_z > 2

ResolutionAccepted(resolution_x, resolution_z) ==
    resolution_x >= 2 /\ resolution_z >= 2

BumpyGridIndices(resolution_x, resolution_z) ==
    LET num_quads == (resolution_x - 1) * (resolution_z - 1)
    IN  [k \in 1..num_quads * 6 |->
            LET q == (k - 1) \div 6
                z_idx == q \div (resolution_x - 1)
                x_idx == q % (resolution_x - 1)
                bottom_left == z_idx * resolution_x + x_idx
                bottom_right == bottom_left + 1
                top_left == (z_idx + 1) * resolution_x + x_idx
                top_right == top_left + 1
            IN  <<bottom_left, top_left, bottom_right,
                  bottom_right, top_left, top_right>>[((k - 1) % 6) + 1]]

BumpyWallIndices(resolution_x, resolution_z, positions_len) ==
    << 0, positions_len - 4, positions_len - 1,
       0, positions_len - 1, resolution_x * (resolution_z - 1),
       resolution_z * resolution_x - 1, positions_len - 2, positions_len - 3,
       resolution_x - 1, resolution_x * resolution_z - 1, positions_len - 3 >>

ZeroNormal == <<0, 0, 0>>

\* The vertices that get a height from the noise.
IsInteriorOfRow(x_idx, z_idx, resolution_x, resolution_z) ==
    \* the two tests on z_idx left out
    x_idx > 0 /\ x_idx < resolution_x - 1

IsInterior(x_idx, z_idx, resolution_x, resolution_z) ==
    x_idx > 0 /\ x_idx < resolution_x - 1 /\ z_idx > 0 /\ z_idx < resolution_z - 1

generate_bumpy_mesh(length, width, resolution_x, resolution_z, perturbations, field, offset) ==
    IF ~ResolutionAccepted(resolution_x, resolution_z) THEN Panicked
    ELSE
    LET num_vertices == resolution_x * resolution_z
        half_width == width \div 2
        XPos(x_idx) == -half_width + RDiv(width * x_idx, resolution_x - 1)
        ZPos(z_idx) == RDiv(length * z_idx, resolution_z - 1)
        Height(x_idx, z_idx) ==
            IF IsInterior(x_idx, z_idx, resolution_x, resolution_z)
            THEN LET noise_val == PerlinGet(field, <<RDiv(XPos(x_idx), 6) + offset.x,
                                                     RDiv(ZPos(z_idx), 6) + offset.y>>)
                 IN  RDiv(noise_val * perturbations, Unit)
            ELSE 0
        grid == [k \in 1..num_vertices |->
                    LET z_idx == (k - 1) \div resolution_x
                        x_idx == (k - 1) % resolution_x
                    IN  <<XPos(x_idx), Height(x_idx, z_idx), ZPos(z_idx)>>]
        grid_uvs == [k \in 1..num_vertices |->
                        <<RDiv(((k - 1) % resolution_x) * Unit, resolution_x - 1),
                          RDiv(((k - 1) \div resolution_x) * Unit, resolution_z - 1)>>]
        positions == grid \o << <<-half_width, WallHeight, 0>>, <<half_width, WallHeight, 0>>,
                                <<half_width, WallHeight, length>>,
                                <<-half_width, WallHeight, length>> >>
        \* one normal pushed per grid vertex, four more by extend_from_slice
        extended == [k \in 1..num_vertices |-> <<0, Unit, 0>>]
                       \o <<ZeroNormal, ZeroNormal, ZeroNormal, ZeroNormal>>
        indices == BumpyGridIndices(resolution_x, resolution_z)
                      \o BumpyWallIndices(resolution_x, resolution_z, Len(positions))
        \* every normal reset to zero, then four further normals pushed
        normals == [k \in 1..Len(extended) |-> ZeroNormal]
                      \o <<ZeroNormal, ZeroNormal, ZeroNormal, ZeroNormal>>
        uvs == grid_uvs \o << <<0, 0>>, <<Unit, 0>>, <<Unit, Unit>>, <<0, Unit>> >>
    IN  [Mesh(positions, indices, uvs, normals) EXCEPT !.smooth_normals = TRUE]

BumpyResolution == 20

generate_mesh_for_block(b, field, offset) ==
    CASE b.type = "Straight" -> generate_straight_mesh(b.length)
      [] b.type = "Turn" -> generate_turn_mesh(b.angle, b.radius)
      [] b.type = "Slope" -> generate_slope_mesh(b.length, b.height_change)
      [] b.type = "BankedTurn" -> generate_banked_turn_mesh(b.angle, b.radius, b.bank_height)
      [] b.type = "Bumpy" -> generate_bumpy_mesh(b.length, TRACK_WIDTH, BumpyResolution,
                                                 BumpyResolution, b.pertubation, field, offset)

\* The calls explored: every piece type, with lengths and radii of either sign and
\* zero, the degenerate Turn(0, 0), angles up to beyond PI; and the grid builder
\* called with resolutions from 0 to MaxResolution.
MaxResolution == 4
Resolutions == 0..MaxResolution
MeshLengths == {-5 * Unit, 0, 10 * Unit}
MeshAngles == {0, 3000, HalfPI, -HalfPI, PI, 34416}
MeshRadii == {-10 * Unit, 0, 10 * Unit, 30 * Unit}
MeshHeights == {-20 * Unit, -3 * Unit, 0}
BankHeights == {0, 2 * Unit}
Perturbations == {0, 1 * Unit}
Offsets == {[x |-> 0, y |-> 0, z |-> 0], [x |-> 30 * Unit, y |-> -7 * Unit, z |-> 0]}
MeshBlocks ==
    {Straight(l) : l \in MeshLengths}
       \cup {Turn(a, r) : a \in MeshAngles, r \in MeshRadii}
       \cup {Slope(l, h) : l \in MeshLengths, h \in MeshHeights}
       \cup {BankedTurn(a, r, h) : a \in {0, 3000, PI, -HalfPI}, r \in {0, 10 * Unit},
                                   h \in BankHeights}
       \cup {Bumpy(l, p) : l \in {-5 * Unit, 10 * Unit}, p \in Perturbations}

MeshCalls ==
    {[fn |-> "generate_mesh_for_block", block |-> b, noise |-> field, offset |-> offset] :
        b \in MeshBlocks, field \in NoiseFields, offset \in Offsets}
GridCalls ==
    {[fn |-> "generate_bumpy_mesh", length |-> length, width |-> TRACK_WIDTH,
      resolution_x |-> resolution_x, resolution_z |-> resolution_z,
      perturbations |-> perturbations, noise |-> field, offset |-> offset] :
        length \in {-5 * Unit, 10 * Unit}, resolution_x \in Resolutions,
        resolution_z \in Resolutions, perturbations \in Perturbations,
        field \in NoiseFields, offset \in Offsets}

GenerateMeshForBlock ==
    /\ block.fn = "generate_mesh_for_block"
    /\ mesh.status = "none"
    /\ mesh' = generate_mesh_for_block(block.block, block.noise, block.offset)
    /\ UNCHANGED <<block, rotVars, genVars, chainVars, gameVars, worldVars>>

GenerateBumpyMesh ==
    /\ block.fn = "generate_bumpy_mesh"
    /\ mesh.status = "none"
    /\ mesh' = generate_bumpy_mesh(block.length, block.width, block.resolution_x,
                                   block.resolution_z, block.perturbations, block.noise,
                                   block.offset)
    /\ UNCHANGED <<block, rotVars, genVars, chainVars, gameVars, worldVars>>

(***************************************************************************)
(* SpecRot: rotate_point_around applied to a point, then applied with the  *)
(* negated angle to the result.                                            *)
(***************************************************************************)
RotCoords == {-5 * Unit, 0, 1 * Unit, 10 * Unit}
RotPoints == {Vec2(x, y) : x \in RotCoords, y \in RotCoords}
RotAngles == {0, PI, -PI, HalfPI, -HalfPI, 3000, 17140, -7854, 34416}

InitRot ==
    /\ \E p \in RotPoints, c \in RotPoints, a \in RotAngles :
          rot = [point |-> p, around |-> c, angle |-> a,
                 res |-> NoVec2, back |-> NoVec2, stage |-> "start"]
    /\ GenIdle
    /\ MeshIdle
    /\ ChainIdle
    /\ GameIdle
    /\ WorldIdle

Rotate ==
    /\ rot.stage = "start"
    /\ rot' = [rot EXCEPT !.res = rotate_point_around(rot.point, rot.around, rot.angle),
                          !.stage = "rotated"]
    /\ UNCHANGED <<genVars, meshVars, chainVars, gameVars, worldVars>>

RotateBack ==
    /\ rot.stage = "rotated"
    /\ rot' = [rot EXCEPT !.back = rotate_point_around(rot.res, rot.around, -rot.angle),
                          !.stage = "back"]
    /\ UNCHANGED <<genVars, meshVars, chainVars, gameVars, worldVars>>

NextRot == Rotate \/ RotateBack

SpecRot == InitRot /\ [][NextRot]_vars

(***************************************************************************)
(* SpecGen: one track built by generate (or by debug_straight).            *)
(* SpecDet: two independent runs of generate with the same arguments.      *)
(***************************************************************************)
InitTracks(runs) ==
    /\ seed \in Seeds
    /\ initial_length \in InitialLengths
    /\ track = [r \in runs |-> NewTrack]
    /\ pc = [r \in runs |-> [at |-> "new", i |-> 0]]
    /\ noise = [d2 |-> NoSamples, d3 |-> NoSamples]
    /\ rot = RotIdle
    /\ MeshIdle
    /\ ChainIdle
    /\ GameIdle
    /\ WorldIdle

InitGen == InitTracks({1})

NextGen == \E r \in DOMAIN track :
              \/ GenerateBegin(r)
              \/ GenerateStep(r)
              \/ DebugStraight(r)

SpecGen == InitGen /\ [][NextGen]_vars

(***************************************************************************)
(* SpecSelect: generate up to the first piece its loop selects, the noise  *)
(* samples drawn from a grid that holds the ends of [-1, 1], 0 and the     *)
(* values either side of the selector's thresholds 0.3 and 0.6.            *)
(***************************************************************************)
SelectVals == {-1000, -600, -599, -300, -299, 0, 299, 300, 450, 599, 600, 1000}

SelectNext(r) ==
    /\ pc[r].at = "loop"
    /\ pc[r].i = 0
    /\ \E p_sel \in SelectVals, p_a \in SelectVals, p_b \in SelectVals :
          LET next == select_next_block(track[r], noise.d2, <<p_sel, p_a, p_b>>)
          IN  /\ track' = [track EXCEPT ![r] =
                              append_block(track[r], next.block, Asphalt, ModifierNone)]
              /\ noise' = [noise EXCEPT !.d2 = next.noise]
    /\ pc' = [pc EXCEPT ![r] = [at |-> "done", i |-> 1]]
    /\ UNCHANGED <<seed, initial_length, rotVars, meshVars, chainVars, gameVars, worldVars>>

NextSelect == \E r \in DOMAIN track : GenerateBegin(r) \/ SelectNext(r)

SpecSelect == InitGen /\ [][NextSelect]_vars

InitDet == InitTracks(Runs)

\* The runs share nothing but the noise field, so their steps commute: one
\* interleaving is followed, the second run taking each step after the first.
NextDet == \E r \in DOMAIN track :
              /\ IF r = 1 THEN pc[1] = pc[2] ELSE pc[1] # pc[2]
              /\ \/ GenerateBegin(r)
                 \/ GenerateStep(r)

SpecDet == InitDet /\ [][NextDet]_vars

(***************************************************************************)
(* SpecMesh: one call of the mesh builder, through generate_mesh_for_block *)
(* or on generate_bumpy_mesh itself.                                       *)
(***************************************************************************)
InitMesh ==
    /\ block \in MeshCalls \cup GridCalls
    /\ mesh = NoMesh
    /\ rot = RotIdle
    /\ GenIdle
    /\ ChainIdle
    /\ GameIdle
    /\ WorldIdle

NextMesh == GenerateMeshForBlock \/ GenerateBumpyMesh

SpecMesh == InitMesh /\ [][NextMesh]_vars

(***************************************************************************)
(* SpecChain: one piece appended to an empty track whose cursor is at any  *)
(* entry pose.  chain holds the piece, the entry pose and the track.       *)
(***************************************************************************)
ChainPositions == {Vec3_ZERO, Vec3(5 * Unit, -3 * Unit, 30 * Unit)}
\* The identity, two headings, and a cursor pitched by half a radian.
ChainRotations == {Quat_IDENTITY, from_rotation_y(8000), from_rotation_y(-HalfPI),
                   Quat(2474, 0, 0, 9689)}
ChainAngles == {3000, 17137, -HalfPI}
ChainRadii == {10 * Unit, 28 * Unit}
ChainBlocks ==
    {Straight(l) : l \in {10 * Unit, 15 * Unit}}
       \cup {Bumpy(10 * Unit, p) : p \in Perturbations}
       \cup {Slope(15 * Unit, h) : h \in {-20 * Unit, -5500, -3 * Unit}}
       \cup {Turn(a, r) : a \in ChainAngles, r \in ChainRadii}
       \cup {BankedTurn(a, r, h) : a \in ChainAngles, r \in ChainRadii,
                                   h \in BankHeights}

InitChain ==
    /\ \E position \in ChainPositions, rotation \in ChainRotations,
          b \in ChainBlocks :
          chain = [stage |-> "entered", block |-> b,
                   entry |-> BlockTransform(position, rotation),
                   track |-> [segments |-> <<>>,
                              current_end |-> BlockTransform(position, rotation)]]
    /\ rot = RotIdle
    /\ GenIdle
    /\ MeshIdle
    /\ GameIdle
    /\ WorldIdle

AppendPiece ==
    /\ chain.stage = "entered"
    /\ chain' = [chain EXCEPT !.stage = "appended",
                              !.track = append_block(@, chain.block, Asphalt,
                                                     ModifierNone)]
    /\ UNCHANGED <<rotVars, genVars, meshVars, gameVars, worldVars>>

NextChain == AppendPiece

SpecChain == InitChain /\ [][NextChain]_vars

(***************************************************************************)
(* SpecWorld: spawn_world, which generates the track with initial_length   *)
(* 30 and spawns an entity per segment, the markers of the gravity         *)
(* modifiers and the goal line.  world holds the entities' components.     *)
(***************************************************************************)
\* The goal line put where the track ends instead of where its last segment starts.
spawn_world_goal_at_end(t, physics) ==
    [stage |-> "spawned",
     segments |-> [i \in 1..Len(t.segments) |->
                     [transform |-> t.segments[i].transform,
                      TrackSegmentId |-> i - 1,
                      mesh_of |-> t.segments[i].block_type,
                      friction |-> IF ~physics THEN 0
                                   ELSE IF t.segments[i].road_type = Ice
                                        THEN (3 * Unit) \div 10 ELSE Unit]],
     markers |-> {[position |-> Vec3Add(t.segments[i].transform.position, Vec3(0, Unit, 0)),
                   ModifierTrigger |-> t.segments[i].modifier, sensor |-> physics] :
                     i \in {j \in 1..Len(t.segments) :
                               t.segments[j].modifier.type = "GravityChange"}},
     goal_line |-> [transform |-> t.current_end, sensor |-> physics]]

spawn_world(t, physics) ==
    [stage |-> "spawned",
     segments |-> [i \in 1..Len(t.segments) |->
                     [transform |-> BlockTransform(t.segments[i].transform.position,
                                                   t.segments[i].transform.rotation),
                      TrackSegmentId |-> i - 1,
                      mesh_of |-> t.segments[i].block_type,
                      friction |-> IF ~physics THEN 0
                                   ELSE IF t.segments[i].road_type = Ice
                                        THEN (3 * Unit) \div 10 ELSE Unit]],
     markers |-> {[position |-> Vec3Add(t.segments[i].transform.position, Vec3(0, Unit, 0)),
                   ModifierTrigger |-> t.segments[i].modifier, sensor |-> physics] :
                     i \in {j \in 1..Len(t.segments) :
                               t.segments[j].modifier.type = "GravityChange"}},
     goal_line |-> [transform |->
                       BlockTransform(t.segments[Len(t.segments)].transform.position,
                                      t.segments[Len(t.segments)].transform.rotation),
                    sensor |-> physics]]

SpawnWorld(r) ==
    /\ pc[r].at = "done"
    /\ world.stage = "idle"
    /\ \E physics \in BOOLEAN : world' = spawn_world(track[r], physics)
    /\ UNCHANGED <<rotVars, genVars, meshVars, chainVars, gameVars>>

InitWorld == InitGen /\ initial_length = 30 * Unit

NextWorld == \E r \in DOMAIN track :
                \/ GenerateBegin(r)
                \/ GenerateStep(r)
                \/ SpawnWorld(r)

SpecWorld == InitWorld /\ [][NextWorld]_vars

(***************************************************************************)
(* SpecRace: the collision events of a race and the ranking at its end.    *)
(* world holds, per player, the components LastTouched, Finished (at is -1 *)
(* while the player has none) and GravityModifier.current, the clock, and  *)
(* the players of the GameResult once it is spawned.                       *)
(***************************************************************************)
MaxSegmentId == 2
MaxRaceTime == 2
RacePlayers == {"a", "b"}
RaceEntities ==
    {[kind |-> "player", id |-> p] : p \in RacePlayers}
       \cup {[kind |-> "segment", id |-> k] : k \in 0..MaxSegmentId}
       \cup {[kind |-> "trigger", id |-> 4 * Unit], [kind |-> "goal", id |-> 0]}

NewRace ==
    [stage |-> "race", now |-> 0, results |-> <<>>,
     players |-> [p \in RacePlayers |->
                    [LastTouched |-> [road_id |-> 0, at |-> 0, touching |-> FALSE],
                     Finished |-> [at |-> -1],
                     GravityModifier |-> [current |-> Unit]]]]

process_potential_collision_latest(w, potential_player, potential_track) ==
    \* "if track_segment_id.0 > last_touched.road_id" left out
    IF potential_player.kind # "player" THEN w
    ELSE IF potential_track.kind = "segment"
    THEN [w EXCEPT !.players[potential_player.id].LastTouched =
                      [road_id |-> potential_track.id, at |-> w.now, touching |-> TRUE]]
    ELSE w

process_potential_collision(w, potential_player, potential_track) ==
    IF potential_player.kind # "player" THEN w
    ELSE IF potential_track.kind = "segment"
    THEN [w EXCEPT !.players[potential_player.id].LastTouched =
                      [road_id |-> IF potential_track.id > @.road_id
                                   THEN potential_track.id ELSE @.road_id,
                       at |-> w.now, touching |-> TRUE]]
    ELSE IF potential_track.kind = "trigger"  \* no entity is both segment and trigger
    THEN [w EXCEPT !.players[potential_player.id].GravityModifier.current =
                      potential_track.id]
    ELSE w

process_potential_collision_stop(w, potential_player, potential_track) ==
    IF potential_player.kind = "player" /\ potential_track.kind = "segment"
    THEN [w EXCEPT !.players[potential_player.id].LastTouched.touching = FALSE,
                   !.players[potential_player.id].LastTouched.at = w.now]
    ELSE w

\* collision_system on one CollisionEvent::Started and on one ::Stopped, the
\* count of the finished players apart.
collision_started(w, entity1, entity2) ==
    IF entity1.kind = "goal" /\ entity2.kind = "player"
    THEN [w EXCEPT !.players[entity2.id].Finished = [at |-> w.now]]
    ELSE IF entity2.kind = "goal" /\ entity1.kind = "player"
    THEN [w EXCEPT !.players[entity1.id].Finished = [at |-> w.now]]
    ELSE process_potential_collision(
             process_potential_collision(w, entity1, entity2), entity2, entity1)
collision_stopped(w, entity1, entity2) ==
    process_potential_collision_stop(
        process_potential_collision_stop(w, entity1, entity2), entity2, entity1)

\* The Finish of a player, and the comparison game_end_system sorts by.
Finish(player) ==
    IF player.Finished.at >= 0
    THEN [kind |-> "Time", at |-> player.Finished.at]
    ELSE [kind |-> "TrackProgress", road_id |-> player.LastTouched.road_id,
          at |-> player.LastTouched.at]
Cmp(a, b) == IF a < b THEN "Less" ELSE IF a = b THEN "Equal" ELSE "Greater"
FinishOrdering(a, b) ==
    CASE a.kind = "Time" /\ b.kind = "Time" -> Cmp(a.at, b.at)
      [] a.kind = "Time" /\ b.kind = "TrackProgress" -> "Less"
      [] a.kind = "TrackProgress" /\ b.kind = "Time" -> "Greater"
      [] OTHER -> IF a.road_id = b.road_id THEN Cmp(a.at, b.at)
                  ELSE Cmp(a.road_id, b.road_id)
\* The lists sort_unstable_by may leave: every player once, no entry Greater than
\* a later one.
Rankings(w) ==
    {ranking \in [1..Cardinality(RacePlayers) -> RacePlayers] :
        /\ \A i, j \in DOMAIN ranking : ranking[i] = ranking[j] => i = j
        /\ \A i, j \in DOMAIN ranking :
              i < j => FinishOrdering(Finish(w.players[ranking[i]]),
                                      Finish(w.players[ranking[j]])) # "Greater"}

InitRace ==
    /\ world = NewRace
    /\ rot = RotIdle
    /\ GenIdle
    /\ MeshIdle
    /\ ChainIdle
    /\ GameIdle

Racing == world.stage = "race" /\ world.results = <<>>

CollisionStarted ==
    /\ Racing
    /\ \E entity1 \in RaceEntities : \E entity2 \in RaceEntities \ {entity1} :
          world' = collision_started(world, entity1, entity2)
    /\ UNCHANGED <<rotVars, genVars, meshVars, chainVars, gameVars>>

CollisionStopped ==
    /\ Racing
    /\ \E entity1 \in RaceEntities : \E entity2 \in RaceEntities \ {entity1} :
          world' = collision_stopped(world, entity1, entity2)
    /\ UNCHANGED <<rotVars, genVars, meshVars, chainVars, gameVars>>

Tick ==
    /\ Racing
    /\ world.now < MaxRaceTime
    /\ world' = [world EXCEPT !.now = @ + 1]
    /\ UNCHANGED <<rotVars, genVars, meshVars, chainVars, gameVars>>

\* game_end_system once its condition holds: the players sorted into a GameResult.
GameEnd ==
    /\ Racing
    /\ \E ranking \in Rankings(world) : world' = [world EXCEPT !.results = ranking]
    /\ UNCHANGED <<rotVars, genVars, meshVars, chainVars, gameVars>>

NextRace == CollisionStarted \/ CollisionStopped \/ Tick \/ GameEnd

SpecRace == InitRace /\ [][NextRace]_vars

(***************************************************************************)
(* The server (server.rs, player.rs, world.rs).  game holds the resources  *)
(* SpawnedPlayersCount (player_count) and GameEndCondition (end), the      *)
(* connected clients (client_ids), the player entities by the client that  *)
(* controls them, the collision events not yet read, the GameResult        *)
(* entities spawned, and the clock: now is Time::elapsed_secs in ticks of  *)
(* 1 / TicksPerSecond.  joined, racers, reached and started_at are history *)
(* the properties read: the clients that ever connected, the players that  *)
(* got a body at the start, those the server saw touch the goal line, and  *)
(* the tick of the start.                                                  *)
(***************************************************************************)
TicksPerSecond == 2
MaxNow == 4
MaxContacts == 3
Clients == {"a", "b", "c"}
PlayerCounts == {1, 2}
MaxGameSeconds == {1}

NoPlayers == [c \in {} |-> 0]
PlayerBundle == [body |-> FALSE, finished |-> FALSE]

NewGame(players, max_game_seconds) ==
    [stage |-> "running",
     player_count |-> [current |-> 0, max |-> players],
     end |-> [physics_start_time |-> 0, max_game_seconds |-> max_game_seconds,
              players_finished |-> 0, evaluated |-> FALSE, has_started |-> FALSE],
     client_ids |-> {},
     players |-> NoPlayers,
     events |-> <<>>,
     results |-> 0,
     now |-> 0,
     frame |-> 0,
     joined |-> {},
     racers |-> {},
     reached |-> {},
     started_at |-> 0]

\* u8 and f32-to-u32 arithmetic.
U8(n) == n % 256
Seconds(now) == now \div TicksPerSecond

\* handle_connect_event: a player entity for the client, one more spawned player.
handle_connect_event(g, client_id) ==
    [g EXCEPT !.players = (client_id :> PlayerBundle) @@ g.players,
              !.player_count.current = U8(@ + 1),
              !.client_ids = @ \cup {client_id},
              !.joined = @ \cup {client_id}]

\* handle_disconnect_event.  The entity the client controlled is despawned with
\* the session or stays, as the replication library decides.
handle_disconnect_event(g, client_id, despawned) ==
    [g EXCEPT !.client_ids = @ \ {client_id},
              !.players = IF despawned
                          THEN [c \in DOMAIN g.players \ {client_id} |-> g.players[c]]
                          ELSE g.players]

\* attach_player_model_server: once as many players were spawned as expected,
\* every player entity without a body gets one and the game has started.
attach_player_model_server(g) ==
    IF g.player_count.current = g.player_count.max /\ ~g.end.has_started
    THEN LET bodiless == {c \in DOMAIN g.players : ~g.players[c].body}
         IN  IF bodiless # {}
             THEN [g EXCEPT !.players = [c \in DOMAIN g.players |->
                                            [g.players[c] EXCEPT !.body = TRUE]],
                            !.end.physics_start_time = Seconds(g.now),
                            !.end.has_started = TRUE,
                            !.racers = bodiless,
                            !.started_at = g.now]
             ELSE g
    ELSE g

\* collision_system, the goal line's events: each one whose player entity still
\* exists marks the player finished and counts one finished player.
RECURSIVE collision_system(_)
collision_system(g) ==
    IF g.events = <<>> THEN g
    ELSE LET p == Head(g.events)
             rest == [g EXCEPT !.events = Tail(@)]
         IN  IF p \in DOMAIN g.players
             THEN collision_system(
                     [rest EXCEPT !.players[p].finished = TRUE,
                                  !.end.players_finished = U8(@ + 1),
                                  !.reached = @ \cup {p}])
             ELSE collision_system(rest)

\* game_end_system: the rankings, spawned as a GameResult.
game_end_system(g) ==
    LET condition ==
           /\ g.end.has_started
           /\ ~g.end.evaluated
           /\ \/ (g.end.max_game_seconds + g.end.physics_start_time) * TicksPerSecond
                    <= g.now
              \/ g.end.players_finished = g.player_count.max
    IN  IF condition
        THEN [g EXCEPT !.results = @ + 1, !.end.evaluated = TRUE]
        ELSE g


\* The systems of the Update schedule, which orders them as it likes.
Systems == {"attach_player_model_server", "collision_system", "game_end_system"}
SystemOrders == {o \in [1..3 -> Systems] : \A i, j \in 1..3 : o[i] = o[j] => i = j}
RunSystem(name, g) ==
    CASE name = "attach_player_model_server" -> attach_player_model_server(g)
      [] name = "collision_system" -> collision_system(g)
      [] name = "game_end_system" -> game_end_system(g)

InitGame ==
    /\ \E players \in PlayerCounts, max_game_seconds \in MaxGameSeconds :
          game = NewGame(players, max_game_seconds)
    /\ rot = RotIdle
    /\ GenIdle
    /\ MeshIdle
    /\ ChainIdle
    /\ WorldIdle

\* A client that was issued a token connects.
Connect ==
    /\ game.stage = "running"
    /\ \E client_id \in Clients \ game.joined :
          game' = handle_connect_event(game, client_id)
    /\ UNCHANGED <<rotVars, genVars, meshVars, chainVars, worldVars>>

Disconnect ==
    /\ game.stage = "running"
    /\ \E client_id \in game.client_ids, despawned \in BOOLEAN :
          game' = handle_disconnect_event(game, client_id, despawned)
    /\ UNCHANGED <<rotVars, genVars, meshVars, chainVars, worldVars>>

\* The physics step reports that a player's ball started touching the goal line.
GoalContact ==
    /\ game.stage = "running"
    /\ game.end.players_finished + Len(game.events) < MaxContacts
    /\ \E p \in DOMAIN game.players :
          /\ game.players[p].body
          /\ game' = [game EXCEPT !.events = Append(@, p)]
    /\ UNCHANGED <<rotVars, genVars, meshVars, chainVars, worldVars>>

\* One frame: the clock advances and the Update schedule runs its systems.
Frame ==
    /\ game.stage = "running"
    /\ \E dt \in {0, 1}, order \in SystemOrders :
          /\ game.now + dt <= MaxNow
          /\ LET g == [game EXCEPT !.now = @ + dt, !.frame = 1 - @]
             IN  game' = RunSystem(order[3], RunSystem(order[2], RunSystem(order[1], g)))
    /\ UNCHANGED <<rotVars, genVars, meshVars, chainVars, worldVars>>

NextGame == Connect \/ Disconnect \/ GoalContact \/ Frame

\* The main loop never stops running frames.
SpecGame == InitGame /\ [][NextGame]_vars /\ WF_vars(Frame)

(***************************************************************************)
(* Properties of the generator                                             *)
(***************************************************************************)
Generated(r) == pc[r].at \in {"loop", "done"}
Returned(r) == pc[r].at = "done"
HasType(t, type) == \E i \in 1..Len(t.segments) : t.segments[i].block_type.type = type

\* The anchor positions: every segment's entry position, then the final cursor.
Anchors(t) == [i \in 1..Len(t.segments) + 1 |->
                  IF i <= Len(t.segments) THEN t.segments[i].transform.position
                                          ELSE t.current_end.position]

\* Whether a and b are more than d apart (the squares are taken only of
\* differences that d bounds).
FartherThan(a, b, d) ==
    LET dx == Abs(a.x - b.x)
        dy == Abs(a.y - b.y)
        dz == Abs(a.z - b.z)
    IN  dx > d \/ dy > d \/ dz > d \/ dx * dx + dy * dy + dz * dz > d * d

\* C1. Continuity: the exit pose computed from each segment's piece type and
\* entry pose is the entry pose of the next segment, and that of the last segment
\* is the track's final cursor, in every track built by append_block calls.
C1_Continuity ==
    \A r \in DOMAIN track :
       LET t == track[r]
           n == Len(t.segments)
       IN  \A i \in 1..n :
              calculate_end_transform(t.segments[i].transform, t.segments[i].block_type)
                 = IF i < n THEN t.segments[i + 1].transform ELSE t.current_end

C1_Witness ==
    \E r \in DOMAIN track :
       /\ Returned(r)
       /\ Len(track[r].segments) = LoopCount + 1
       /\ HasType(track[r], "Turn")
       /\ track[r].segments[2].transform # track[r].segments[1].transform

C6_NonOverlap ==
    \A r \in DOMAIN track :
       Generated(r) =>
          LET a == Anchors(track[r])
          IN  \A i, j \in DOMAIN a : j >= i + 2 => FartherThan(a[i], a[j], 3 * Unit)

\* C6 as amended. Every two anchors whose indices differ by at least 2 and
\* between which the track holds no Turn piece are more than 3.0 apart.
C6_NonOverlapWithoutTurn ==
    \A r \in DOMAIN track :
       Generated(r) =>
          LET t == track[r]
              a == Anchors(t)
          IN  \A i, j \in DOMAIN a :
                 (/\ j >= i + 2
                  /\ \A k \in i..j - 1 : t.segments[k].block_type.type # "Turn")
                    => FartherThan(a[i], a[j], 3 * Unit)

C6_Witness ==
    \E r \in DOMAIN track :
       /\ Returned(r)
       /\ track[r].segments[2].block_type.type = "Straight"
       /\ track[r].segments[3].block_type.type = "Straight"
       /\ ~HasType(track[r], "Turn")

\* C7. Bounded pitch: every segment's entry rotation has unit length (within
\* EPSILON) and a pitch strictly within 45 degrees either way.
C7_BoundedPitch ==
    \A r \in DOMAIN track :
       \A i \in 1..Len(track[r].segments) :
          LET q == track[r].segments[i].transform.rotation
          IN  /\ Abs(QuatLengthSquared(q) - TrigScale) <= (2 * EPSILON * TrigScale) \div Unit
              /\ Abs(PitchSin(q)) < Sin(HalfPI \div 2)

C7_Witness ==
    \E r \in DOMAIN track :
       /\ Returned(r)
       /\ track[r].segments[2].block_type.type = "Turn"
       /\ track[r].segments[3].block_type.type = "Slope"
       /\ track[r].segments[3].transform.rotation # Quat_IDENTITY

\* The height a track's Slope pieces descend in total.
RECURSIVE SlopeDescent(_, _)
SlopeDescent(segments, n) ==
    IF n = 0 THEN 0
    ELSE SlopeDescent(segments, n - 1)
         + (IF segments[n].block_type.type = "Slope"
            THEN segments[n].block_type.height_change ELSE 0)

\* What rounding to 1/TrigScale can move the final height by: for each segment,
\* one step of the cursor's rotation applied to the descent.
HeightResolution(segments) ==
    Len(segments) * (EPSILON + Abs(SlopeDescent(segments, Len(segments))) \div TrigScale)

\* C8 as claimed. Net descent: when generate returns, the final cursor is below
\* height 0 and more than 5.0 below the first segment's entry height.
C8_NetDescent ==
    \A r \in DOMAIN track :
       Returned(r) =>
          /\ track[r].current_end.position.y < 0
          /\ track[r].current_end.position.y
                - track[r].segments[1].transform.position.y < -5 * Unit

\* C8 as amended. When generate returns, the final cursor is below height 0 and
\* lies below the first segment's entry height by the summed height_change of the
\* track's Slope pieces: by the initial slope's 3.0 at least, by more than that
\* only as far as the selected Slope pieces descend.
C8_NetDescentOfSlopes ==
    \A r \in DOMAIN track :
       Returned(r) =>
          LET t == track[r]
              drop == t.current_end.position.y - t.segments[1].transform.position.y
          IN  /\ t.current_end.position.y < 0
              /\ drop <= -3 * Unit
              /\ Abs(drop - SlopeDescent(t.segments, Len(t.segments)))
                    <= HeightResolution(t.segments)

C8_Witness ==
    \E r \in DOMAIN track :
       /\ Returned(r)
       /\ track[r].segments[2].block_type.type = "Turn"
       /\ track[r].segments[3].block_type.type = "Slope"
       /\ track[r].current_end.position.y < -5 * Unit

(***************************************************************************)
(* Properties of rotate_point_around                                       *)
(***************************************************************************)
\* Whether a and b differ by at most tol in each coordinate.
Near2(a, b, tol) == Abs(a.x - b.x) <= tol /\ Abs(a.y - b.y) <= tol

\* What rounding to 1/TrigScale can move a rotated point by: one step of the
\* sine and cosine for each coordinate of the vector rotated.
Resolution(point, around) ==
    EPSILON + (Abs(point.x - around.x) + Abs(point.y - around.y)) \div TrigScale

\* C9. Rotation primitive: a rotation by 0 returns the point; a rotation by PI
\* returns the point's reflection 2 * centre - point; a rotation followed by the
\* rotation by the negated angle about the same centre returns the point.
C9_RotationPrimitive ==
    /\ (rot.stage \in {"rotated", "back"} /\ rot.angle = 0) => rot.res = rot.point
    /\ (rot.stage \in {"rotated", "back"} /\ rot.angle = PI) =>
          Near2(rot.res, Vec2(2 * rot.around.x - rot.point.x,
                              2 * rot.around.y - rot.point.y), EPSILON)
    /\ rot.stage = "back" =>
          Near2(rot.back, rot.point, 2 * Resolution(rot.point, rot.around))

C9_Witness ==
    /\ rot.stage = "back"
    /\ rot.point = Vec2(0, 0)
    /\ rot.around = Vec2(0, 1 * Unit)
    /\ rot.angle = PI
    /\ rot.res = Vec2(0, 2 * Unit)
    /\ rot.back = rot.point


(***************************************************************************)
(* Properties of the mesh builder                                          *)
(***************************************************************************)
Called == mesh.status # "none"
Built == mesh.status = "ok"
ForBlock(type) == block.fn = "generate_mesh_for_block" /\ block.block.type = type
GridCall == block.fn = "generate_bumpy_mesh"
MaxIndex == CHOOSE m \in {mesh.indices[k] : k \in DOMAIN mesh.indices} :
               \A k \in DOMAIN mesh.indices : mesh.indices[k] <= m

\* C3. Mesh index validity: in every mesh the builder returns, for every piece
\* type, every triangle index is a valid vertex number (at least 0 and strictly
\* less than the number of positions), and the number of indices is a multiple
\* of 3.
C3_IndexValidity ==
    Built =>
       /\ \A k \in DOMAIN mesh.indices :
             mesh.indices[k] >= 0 /\ mesh.indices[k] < Len(mesh.positions)
       /\ Len(mesh.indices) % 3 = 0

\* A turn of more than PI: 35 segments, and the last vertex is indexed.
C3_Witness ==
    /\ Built
    /\ ForBlock("Turn")
    /\ ArcSegments(block.block.angle) = 35
    /\ Len(mesh.indices) = 630
    /\ MaxIndex = Len(mesh.positions) - 1

\* C4. Mesh attribute consistency: the position, normal and UV arrays inserted
\* into a mesh have the same length, and for a grid of resolution_x by
\* resolution_z that length is resolution_x * resolution_z + 4.
C4_AttributeLengths ==
    Built =>
       /\ Len(mesh.positions) = Len(mesh.normals)
       /\ Len(mesh.positions) = Len(mesh.uvs)
       /\ GridCall =>
             Len(mesh.normals) = block.resolution_x * block.resolution_z + 4
       /\ ForBlock("Bumpy") =>
             Len(mesh.normals) = BumpyResolution * BumpyResolution + 4

\* Whether a call's parameters are malformed: a negative length, a radius that
\* is negative or zero, a grid resolution below 2.
Malformed ==
    \/ /\ block.fn = "generate_mesh_for_block"
       /\ \/ block.block.type \in {"Straight", "Slope", "Bumpy"} /\ block.block.length < 0
          \/ block.block.type \in {"Turn", "BankedTurn"} /\ block.block.radius <= 0
    \/ /\ GridCall
       /\ \/ block.length < 0
          \/ block.resolution_x < 2
          \/ block.resolution_z < 2
NoGeometry ==
    /\ mesh.positions = <<>>
    /\ mesh.normals = <<>>
    /\ mesh.uvs = <<>>
    /\ mesh.indices = <<>>

\* C5. Parameter rejection: a call with a negative length, a negative or zero
\* radius, or a grid resolution below 2 returns an InvalidParameter error and no
\* geometry; every other call succeeds.
C5_ParameterRejection ==
    Called =>
       IF Malformed THEN mesh.status = "InvalidParameter" /\ NoGeometry
                    ELSE Built

\* C5, as the code has it: there is no InvalidParameter result.  A call fails,
\* by a panic of an assertion and with no geometry, exactly when a grid
\* resolution is below 2, which only a direct call of generate_bumpy_mesh can
\* pass (generate_mesh_for_block fixes the grid at 20 by 20); every other call,
\* a negative length and a zero or negative radius included, returns a mesh
\* with vertices.
C5_PanicBelowResolution2 ==
    Called =>
       /\ mesh.status \in {"ok", "panic"}
       /\ mesh.status = "panic" <=>
             (GridCall /\ (block.resolution_x < 2 \/ block.resolution_z < 2))
       /\ mesh.status = "panic" => NoGeometry
       /\ Built => Len(mesh.positions) >= 8 /\ Len(mesh.indices) >= 18

C5_Witness ==
    /\ GridCall
    /\ block.resolution_x = 1
    /\ block.resolution_z = 2
    /\ mesh.status = "panic"

\* C10. Degenerate turn: every vertex of the mesh of Turn with angle 0 and
\* radius 0 has x and z within [-1, 1] and y within [-0.5, 0.5].
C10_DegenerateTurn ==
    (Built /\ ForBlock("Turn") /\ block.block.angle = 0 /\ block.block.radius = 0) =>
       \A k \in DOMAIN mesh.positions :
          LET position == mesh.positions[k]
          IN  /\ position[1] >= -Unit /\ position[1] <= Unit
              /\ position[2] >= -(Unit \div 2) /\ position[2] <= Unit \div 2
              /\ position[3] >= -Unit /\ position[3] <= Unit


(***************************************************************************)
(* Further properties of the generator                                     *)
(***************************************************************************)
\* The number of append_block calls a step into pc value p makes.
AppendCalls(p) == IF p.at = "debug" THEN 5 ELSE 1

\* C11. Segments are immutable once appended: every step that appends grows the
\* segment list by one per append_block call, stores the cursor it found as the
\* entry pose of the first segment it appends, and leaves every segment that
\* was there before (piece type, entry pose, surface kind, modifier) as it was.
C11_AppendOnly ==
    [][\A r \in DOMAIN track :
          LET old == track[r]
              new == track'[r]
              n == Len(old.segments)
          IN  new # old =>
                 /\ Len(new.segments) = n + AppendCalls(pc'[r])
                 /\ new.segments[n + 1].transform = old.current_end
                 /\ SubSeq(new.segments, 1, n) = old.segments]_vars

\* A track whose third segment was appended after two others that differ from it.
C11_Witness ==
    \E r \in DOMAIN track :
       /\ Returned(r)
       /\ Len(track[r].segments) = LoopCount + 1
       /\ track[r].segments[2].block_type.type = "Slope"
       /\ track[r].segments[3].block_type.type = "Turn"
       /\ track[r].segments[3].road_type = Ice
       /\ track[r].segments[2].road_type = Asphalt


\* The turning accumulated over segments 1..n since the most recent Slope: a
\* Turn adds |angle|, a Slope resets to 0, a Straight leaves it.
RECURSIVE TurnedSinceSlope(_, _)
TurnedSinceSlope(segments, n) ==
    IF n = 0 THEN 0
    ELSE LET b == segments[n].block_type
         IN  IF b.type = "Slope" THEN 0
             ELSE IF b.type = "Turn"
                  THEN TurnedSinceSlope(segments, n - 1) + Abs(b.angle)
                  ELSE TurnedSinceSlope(segments, n - 1)

\* C14. Forced descent: in a generated track, a piece that follows more than
\* pi/2 of turning accumulated since the most recent Slope is a Slope.
C14_ForcedDescent ==
    \A r \in DOMAIN track :
       Generated(r) =>
          \A n \in 1..Len(track[r].segments) - 1 :
             TurnedSinceSlope(track[r].segments, n) > HalfPI
                => track[r].segments[n + 1].block_type.type = "Slope"

\* C20. Slope descent range: every Slope the generator selects in its loop has
\* a height_change in [-20, -10].
C20_SlopeDescentRange ==
    \A r \in DOMAIN track :
       Generated(r) =>
          \A n \in 2..Len(track[r].segments) :
             LET b == track[r].segments[n].block_type
             IN  b.type = "Slope" =>
                    /\ -20 * Unit <= b.height_change
                    /\ b.height_change <= -10 * Unit

\* C17. Initial piece: a track returned by generate is not empty, and its first
\* segment is a Slope of length initial_length and of the fixed height_change
\* -3, entered at the origin with the identity rotation.
C17_InitialPiece ==
    \A r \in DOMAIN track :
       Returned(r) =>
          /\ Len(track[r].segments) >= 1
          /\ track[r].segments[1].block_type = Slope(initial_length, -3 * Unit)
          /\ track[r].segments[1].block_type.height_change < 0
          /\ track[r].segments[1].transform = BlockTransform(Vec3_ZERO, Quat_IDENTITY)
C17_Witness ==
    \E r \in DOMAIN track :
       /\ Returned(r)
       /\ initial_length = 30 * Unit
       /\ Len(track[r].segments) = LoopCount + 1
       /\ track[r].segments[1].block_type.length = 30 * Unit
       /\ track[r].current_end.position.y < -3 * Unit

\* C23. Generated pieces are valid builder inputs: with initial_length > 0 every
\* Straight and Slope of a generated track has a length above 0, and every Turn
\* a radius in [10, 30] and an angle in [0.3, pi + 0.3].
C23_ValidPieces ==
    \A r \in DOMAIN track :
       Generated(r) =>
          \A n \in 1..Len(track[r].segments) :
             LET b == track[r].segments[n].block_type
             IN  /\ initial_length > 0
                 /\ b.type \in {"Straight", "Slope"} => b.length > 0
                 /\ b.type = "Turn" =>
                       /\ 10 * Unit <= b.radius /\ b.radius <= 30 * Unit
                       /\ (3 * TrigScale) \div 10 <= b.angle
                       /\ b.angle <= PI + (3 * TrigScale) \div 10
                 /\ b.type \in {"Straight", "Slope", "Turn"}
C23_Witness ==
    \E r \in DOMAIN track :
       /\ Returned(r)
       /\ track[r].segments[2].block_type.type = "Turn"
       /\ track[r].segments[2].block_type.radius = 30 * Unit
       /\ track[r].segments[2].block_type.angle = (3 * TrigScale) \div 10

\* C24. Monotone descent: along a generated track no segment is entered higher
\* than the segment before it, and the final cursor is no higher than the last
\* segment's entry.
C24_MonotoneDescent ==
    \A r \in DOMAIN track :
       \A n \in 1..Len(track[r].segments) :
          Anchors(track[r])[n + 1].y <= Anchors(track[r])[n].y
C24_Witness ==
    \E r \in DOMAIN track :
       /\ Returned(r)
       /\ track[r].segments[2].block_type.type = "Turn"
       /\ track[r].segments[3].block_type.type = "Slope"
       /\ Anchors(track[r])[3].y = Anchors(track[r])[2].y
       /\ Anchors(track[r])[4].y < Anchors(track[r])[3].y

(***************************************************************************)
(* Properties of the server                                                *)
(***************************************************************************)
\* C12. Game start: the game has started only if as many players as expected
\* have joined, and if from some point on as many clients as expected stay
\* connected then the game eventually has started.
C12_GameStart ==
    /\ [](game.end.has_started =>
             Cardinality(game.joined) >= game.player_count.max)
    /\ <>[](Cardinality(game.client_ids) = game.player_count.max)
          => <>game.end.has_started

\* Every player that started the race has been seen at the goal line.
EveryPlayerFinished(g) == g.racers # {} /\ g.racers \subseteq g.reached
\* max_game_seconds have passed since the second in which the game started.
TimeUp(g) ==
    g.now >= (Seconds(g.started_at) + g.end.max_game_seconds) * TicksPerSecond
Due(g) == g.end.has_started /\ (EveryPlayerFinished(g) \/ TimeUp(g))

\* C13. Game end: the rankings are calculated at most once; when they are
\* calculated the game has started and every player has reached the finish line
\* or max_game_seconds have passed since the start; and a frame that begins with
\* one of the two true and no rankings yet calculates them.
C13_GameEnd ==
    [][/\ game'.results <= 1
       /\ game'.results > game.results => Due(game')
       /\ (Due(game) /\ game'.frame # game.frame) => game'.results >= 1]_vars

\* C27. Finish count is exact: players_finished is the number of distinct
\* players the server has seen touch the goal line, so it never exceeds the
\* number of players, and when it is player_count.max every player that started
\* the race has finished.
C27_FinishCountExact ==
    /\ game.end.players_finished = Cardinality(game.reached)
    /\ game.end.players_finished <= Cardinality(game.joined)
    /\ game.end.players_finished = game.player_count.max
          => game.racers \subseteq game.reached

\* C25. Goal placement: in the spawned world the goal line has the position and
\* rotation of the entry pose of the track's last segment, and segment i's entity
\* (counted from 0) has that segment's entry pose and the TrackSegmentId i.
C25_GoalPlacement ==
    world.stage = "spawned" =>
       \A r \in DOMAIN track :
          LET segments == track[r].segments
          IN  /\ Len(world.segments) = Len(segments)
              /\ world.goal_line.transform = segments[Len(segments)].transform
              /\ \A i \in 1..Len(segments) :
                    /\ world.segments[i].transform = segments[i].transform
                    /\ world.segments[i].TrackSegmentId = i - 1
                    /\ world.segments[i].mesh_of = segments[i].block_type
C25_Witness ==
    /\ world.stage = "spawned"
    /\ Len(world.segments) = LoopCount + 1
    /\ world.segments[Len(world.segments)].mesh_of.type = "Slope"
    /\ world.goal_line.transform.position.y <= -3 * Unit
    /\ world.goal_line.transform.rotation # Quat_IDENTITY
    /\ world.goal_line.transform # track[1].current_end
    /\ world.goal_line.sensor

\* C26. Track progress is monotone: no step of a race lowers a player's
\* LastTouched.road_id, and a step that raises it leaves the player touching a
\* segment of the new id at the current time.
C26_MonotoneProgress ==
    [][(world.stage = "race" /\ world'.stage = "race") =>
          \A p \in RacePlayers :
             LET old == world.players[p].LastTouched
                 new == world'.players[p].LastTouched
             IN  /\ new.road_id >= old.road_id
                 /\ new.road_id > old.road_id => new.touching /\ new.at = world.now]_vars
C26_Witness ==
    /\ world.stage = "race"
    /\ world.players["a"].LastTouched = [road_id |-> 2, at |-> 2, touching |-> FALSE]
    /\ world.players["a"].GravityModifier.current = 4 * Unit
    /\ world.players["b"].LastTouched.road_id = 1

\* C28. Ranking order: in the players of the GameResult every player with a
\* finish time precedes every player without one, finishers appear in ascending
\* finish time, and among the players without one a higher last-touched road id
\* comes first, equal ids in ascending last-touch time.
C28_RankingOrder ==
    (world.stage = "race" /\ world.results # <<>>) =>
       \A i, j \in DOMAIN world.results :
          i < j =>
            LET a == Finish(world.players[world.results[i]])
                b == Finish(world.players[world.results[j]])
            IN  /\ b.kind = "Time" => a.kind = "Time"
                /\ (a.kind = "Time" /\ b.kind = "Time") => a.at <= b.at
                /\ (a.kind = "TrackProgress" /\ b.kind = "TrackProgress") =>
                      /\ a.road_id >= b.road_id
                      /\ a.road_id = b.road_id => a.at <= b.at

(***************************************************************************)
(* Further properties of the mesh builder                                  *)
(***************************************************************************)
\* The height of vertex k (counted from 0) of the mesh.
HeightOf(k) == mesh.positions[k + 1][2]

\* C18. Bank vanishes at the boundaries: in a BankedTurn mesh of K segments the
\* first and the last ring are the vertices of the Turn mesh of the same angle and
\* radius, their inner pair at the heights 0 and wall height, because
\* sigmoid_peak(0, K) = 0 and sigmoid_peak(K, K) = 0; and the bank is symmetric:
\* sigmoid_peak(i, K) = sigmoid_peak(K - i, K) and ring i's inner pair is as high
\* as ring K - i's.
C18_BankVanishes ==
    (Built /\ ForBlock("BankedTurn")) =>
       LET b == block.block
           K == ArcSegments(b.angle)
           turn == generate_turn_mesh(b.angle, b.radius)
       IN  /\ K >= 1
           /\ Len(mesh.positions) = 4 * (K + 1)
           /\ sigmoid_peak(0, K) = 0 /\ sigmoid_peak(K, K) = 0
           /\ \A i \in {0, K} :
                 /\ HeightOf(4 * i) = 0
                 /\ HeightOf(4 * i + 1) = WallHeight
                 /\ \A j \in 1..4 : mesh.positions[4 * i + j] = turn.positions[4 * i + j]
           /\ \A i \in 0..K :
                 /\ sigmoid_peak(i, K) = sigmoid_peak(K - i, K)
                 /\ HeightOf(4 * i) = HeightOf(4 * (K - i))
                 /\ HeightOf(4 * i + 1) = HeightOf(4 * (K - i) + 1)
C18_Witness ==
    /\ Built
    /\ ForBlock("BankedTurn")
    /\ block.block.bank_height = 2 * Unit
    /\ ArcSegments(block.block.angle) = 16
    /\ HeightOf(4 * 8) = 2 * Unit
    /\ HeightOf(4 * 1) > 0
    /\ HeightOf(4 * 16) = 0

\* The grid of the call: its resolutions, and the grid indices of vertex k.
GridResolution ==
    IF GridCall THEN <<block.resolution_x, block.resolution_z>>
    ELSE <<BumpyResolution, BumpyResolution>>
OnBorder(k) ==
    LET x_idx == k % GridResolution[1]
        z_idx == k \div GridResolution[1]
    IN  \/ x_idx = 0 \/ x_idx = GridResolution[1] - 1
        \/ z_idx = 0 \/ z_idx = GridResolution[2] - 1

\* C19. Flat border of Bumpy: in the floor grid of a Bumpy mesh every vertex of
\* the first or last column or row has the height 0.
C19_FlatBorder ==
    (Built /\ (GridCall \/ ForBlock("Bumpy"))) =>
       \A k \in 0..GridResolution[1] * GridResolution[2] - 1 :
          OnBorder(k) => HeightOf(k) = 0
C19_Witness ==
    /\ Built
    /\ GridCall
    /\ GridResolution = <<4, 3>>
    /\ block.noise = "trough"
    /\ block.offset.x # 0
    /\ HeightOf(5) = -1 * Unit
    /\ HeightOf(6) = -1 * Unit
    /\ \A k \in 0..11 : k \notin {5, 6} => HeightOf(k) = 0

Near3(a, b, tol) ==
    Abs(a.x - b.x) <= tol /\ Abs(a.y - b.y) <= tol /\ Abs(a.z - b.z) <= tol

\* The floor vertices (counted from 0) at the two ends of the first and of the
\* last floor edge of the mesh built for a piece.
FloorEdges(b) ==
    CASE b.type \in {"Straight", "Slope"} -> [first |-> <<0, 1>>, last |-> <<3, 2>>]
      [] b.type \in {"Turn", "BankedTurn"} ->
            [first |-> <<0, 2>>,
             last |-> <<4 * ArcSegments(b.angle), 4 * ArcSegments(b.angle) + 2>>]
      [] b.type = "Bumpy" ->
            [first |-> <<0, BumpyResolution - 1>>,
             last |-> <<BumpyResolution * (BumpyResolution - 1),
                        BumpyResolution * BumpyResolution - 1>>]
Midpoint(edge) ==
    LET p == mesh.positions[edge[1] + 1]
        q == mesh.positions[edge[2] + 1]
    IN  Vec3(RDiv(p[1] + q[1], 2), RDiv(p[2] + q[2], 2), RDiv(p[3] + q[3], 2))
\* The exit offset chaining uses for a piece entered at the origin with no
\* rotation; a Bumpy chains as the Straight of its length.
LocalExit(b) ==
    calculate_end_transform(BlockTransform(Vec3_ZERO, Quat_IDENTITY),
                            IF b.type = "Bumpy" THEN Straight(b.length) ELSE b).position

\* C22. Mesh end matches chaining exit: in the mesh built for a Straight, Bumpy,
\* Slope or Turn the first floor edge is centred on the origin and the midpoint
\* of the last floor edge is the piece's local exit offset: rounding apart,
\* (0, 0, length), (0, height_change, length), or the XZ offset
\* rotate_point_around((0, 0), (radius, 0), -angle) at height 0.
C22_MeshEndIsExit ==
    (Built /\ \E type \in {"Straight", "Bumpy", "Slope", "Turn"} : ForBlock(type)) =>
       LET b == block.block
           exit == Midpoint(FloorEdges(b).last)
       IN  /\ Midpoint(FloorEdges(b).first) = Vec3_ZERO
           /\ Near3(exit, LocalExit(b), 2 * EPSILON)
           /\ b.type \in {"Straight", "Bumpy"} => exit = Vec3(0, 0, b.length)
           /\ b.type = "Slope" => exit = Vec3(0, b.height_change, b.length)
           /\ b.type = "Turn" => exit.y = 0
C22_Witness ==
    /\ Built
    /\ ForBlock("Turn")
    /\ block.block.angle = HalfPI
    /\ block.block.radius = 10 * Unit
    /\ Near3(Midpoint(FloorEdges(block.block).last), Vec3(10 * Unit, 0, 10 * Unit),
             2 * EPSILON)

(***************************************************************************)
(* Properties of the chaining transform                                    *)
(***************************************************************************)
Appended(type) == chain.stage = "appended" /\ chain.block.type = type
\* What rounding to 1/TrigScale can move a rotated vector of length Unit by.
ChainResolution == 2 * EPSILON
Axes == {Vec3(Unit, 0, 0), Vec3(0, Unit, 0), Vec3(0, 0, Unit)}

\* C15. Turn chaining: a Turn or BankedTurn of angle and radius entered at (P, R)
\* exits with the rotation Rot_y(angle) * R, which turns a vector as R followed by
\* the rotation by angle about the world's vertical axis, and at the position
\* P + R * (x, 0, z) for (x, z) = rotate_point_around((0, 0), (radius, 0), -angle);
\* a BankedTurn exits where the Turn of its angle and radius does.
C15_TurnChaining ==
    (Appended("Turn") \/ Appended("BankedTurn")) =>
       LET b == chain.block
           P == chain.entry.position
           R == chain.entry.rotation
           exit == chain.track.current_end
           xz == rotate_point_around(Vec2(0, 0), Vec2(b.radius, 0), -b.angle)
       IN  /\ exit.rotation = QuatMul(from_rotation_y(b.angle), R)
           /\ \A v \in Axes :
                 Near3(QuatRotate(exit.rotation, v),
                       QuatRotate(from_rotation_y(b.angle), QuatRotate(R, v)),
                       ChainResolution)
           /\ exit.position = Vec3Add(P, QuatRotate(R, Vec3(xz.x, 0, xz.y)))
           /\ exit = calculate_end_transform(chain.entry, Turn(b.angle, b.radius))
C15_Witness ==
    /\ Appended("BankedTurn")
    /\ chain.block.bank_height = 2 * Unit
    /\ chain.block.angle = -HalfPI
    /\ chain.entry.rotation = Quat(2474, 0, 0, 9689)
    /\ chain.track.current_end.rotation # chain.entry.rotation
    /\ chain.track.current_end.position # chain.entry.position

\* C16. Straight-like chaining: appending a Straight, Bumpy or Slope entered at
\* (P, R) leaves the cursor's rotation R and moves its position to
\* P + R * (0, 0, length), for a Slope to P + R * (0, height_change, length); with
\* R the identity that is P + (0, 0, length), P + (0, height_change, length), and
\* with R a heading the height changes by height_change up to rounding.
C16_StraightLikeChaining ==
    (Appended("Straight") \/ Appended("Bumpy") \/ Appended("Slope")) =>
       LET b == chain.block
           P == chain.entry.position
           R == chain.entry.rotation
           exit == chain.track.current_end
           rise == IF b.type = "Slope" THEN b.height_change ELSE 0
       IN  /\ exit.rotation = R
           /\ exit.position = Vec3Add(P, QuatRotate(R, Vec3(0, rise, b.length)))
           /\ R = Quat_IDENTITY => exit.position = Vec3Add(P, Vec3(0, rise, b.length))
           /\ R.x = 0 /\ R.z = 0 =>
                 Abs(exit.position.y - (P.y + rise))
                    <= EPSILON + Abs(rise) \div TrigScale
C16_Witness ==
    /\ Appended("Bumpy")
    /\ chain.block.pertubation = 1 * Unit
    /\ chain.entry.rotation = from_rotation_y(-HalfPI)
    /\ chain.track.current_end.rotation = chain.entry.rotation
    /\ chain.track.current_end.position.x < chain.entry.position.x - 9 * Unit

\* C21. Test oracle agrees with the generator: for a Straight, Turn or Slope
\* entered at any pose, tests::calculate_end returns the end position
\* calculate_end_transform returns, within the test's epsilon on every axis.
C21_OracleAgrees ==
    (Appended("Straight") \/ Appended("Turn") \/ Appended("Slope")) =>
       Near3(calculate_end(chain.block, chain.entry).position,
             chain.track.current_end.position, EPSILON)

====
